---- MODULE Spec2Model ----
(***************************************************************************)
(* Model of the mini-chatbot GraphQL gateway: the conversation store       *)
(* (ChatService), the chat mutation (ChatResolver.chat), the RAG helper    *)
(* (RAGService) and the language-model providers (llm.provider.ts).        *)
(*                                                                         *)
(* Conventions                                                             *)
(*  - A text is a sequence of tokens (strings); the string the code builds *)
(*    is the concatenation of the tokens.  The empty text <<>> is the      *)
(*    empty string, the only falsy text.                                   *)
(*  - Fractional numbers are scaled by 100 (temperature 0.3 is 30, a score *)
(*    of 0.5 is 50).                                                       *)
(*  - Messages are kept in one sequence in creation order; a message's id  *)
(*    is its position in that sequence, so ordering by createdAt is        *)
(*    ordering by id.  Id 0 is no id (an absent or empty cursor).          *)
(*  - Undefined stands for JavaScript's undefined/null in numeric fields.  *)
(***************************************************************************)
EXTENDS Integers, Sequences, FiniteSets, TLC

\* ------------------------------------------------------------------ bounds
MaxSeed == 6        \* seeded messages of session s1 (pagination)
MaxLimit == 3       \* page sizes asked for
MaxDocs == 3        \* matches the vector store returns
MaxTopK == 2        \* explicit topK values asked for
MaxHistory == 2     \* length of a history handed to generateAnswer directly
MaxChatSeed == 2    \* seeded messages of session s1 (chat)
MaxMessages == 4    \* a chat turn starts only while fewer messages are stored
MaxMockLen == 3     \* length of a message list handed to the mock provider directly
MaxModels == 2      \* models the Ollama server lists
MaxIngest == 2      \* documents submitted in one ingestDocuments call
MaxLongSeed == 12   \* seeded messages of a long conversation (more than HistoryLimit)

\* --------------------------------------------------------------- constants
Undefined == -1000
DefaultLimit == 20          \* getMessagesPaginated(limit = 20)
DefaultTopK == 5            \* topK = 5
DefaultTemperature == 30    \* temperature = 0.3
HistoryLimit == 10          \* getMessages(sessionId, 10)
MinTemperature == 10        \* Math.max(0.1, ...)
MaxTemperature == 100       \* Math.min(1.0, ...)

SessionIds == {"s1", "s2"}
BotIds == {"b1", "b2"}
CallIds == {"c1", "c2"}

VARIABLES
    messages,   \* prisma.message rows, in creation order
    sessions,   \* prisma.chatSession rows: SessionIds -> [exists, botId]
    bots,       \* prisma.bot rows: BotIds -> [exists, temperature]
    chroma,     \* RAGService.chroma: "pending" (unset, import running),
                \* "ready" (set) or "failed" (unset for good)
    provider,   \* process.env.MODEL_PROVIDER || 'mock'
    calls,      \* the chat / generateAnswer calls in flight, per call id
    page,       \* the last MessageConnection a client received, with its request
    prevPage,   \* the page before it when the client followed nextCursor
    ollama,     \* the OllamaProvider instance and its generateCompletion call
    documents,  \* prisma.document rows: filename -> ingestion status
    ingest      \* the ingestDocuments call in flight

vars == <<messages, sessions, bots, chroma, provider, calls, page, prevPage,
          ollama, documents, ingest>>

\* ------------------------------------------------------------ pure helpers
RECURSIVE Reverse(_)
Reverse(s) == IF s = <<>> THEN <<>> ELSE Append(Reverse(Tail(s)), Head(s))

Take(s, n) == SubSeq(s, 1, IF n < Len(s) THEN n ELSE Len(s))

\* ------------------------------------------------------- conversation store
\* Message.tokensUsed || undefined (the createdAt conversion is the identity
\* on the creation order this model keeps).
mapPrismaMessageToGraphQL(m) ==
    [m EXCEPT !.tokensUsed = IF m.tokensUsed = 0 \/ m.tokensUsed = Undefined
                             THEN Undefined ELSE m.tokensUsed]

\* rows.map(this.mapPrismaMessageToGraphQL)
mapMessages(rows) == [i \in 1..Len(rows) |-> mapPrismaMessageToGraphQL(rows[i])]

\* prisma.message.findMany({where: {sessionId}, orderBy: {createdAt: 'asc'}})
SessionAsc(rows, sessionId) == SelectSeq(rows, LAMBDA m : m.sessionId = sessionId)

\* findManyDesc starting after the cursor row instead of at it
findManyDesc_SkipsCursor(rows, sessionId, take, cursor) ==
    LET desc == Reverse(SessionAsc(rows, sessionId))
        from == IF cursor = 0 THEN desc
                ELSE IF cursor \in 1..Len(rows)
                     THEN SelectSeq(desc, LAMBDA m : m.id < cursor)
                     ELSE <<>>
    IN  Take(from, take)

\* prisma.message.findMany({where: {sessionId}, orderBy: {createdAt: 'desc'},
\*                          take, cursor}): the cursor row is included; a
\* cursor naming no row yields no rows.
findManyDesc(rows, sessionId, take, cursor) ==
    LET desc == Reverse(SessionAsc(rows, sessionId))
        from == IF cursor = 0 THEN desc
                ELSE IF cursor \in 1..Len(rows)
                     THEN SelectSeq(desc, LAMBDA m : m.id <= cursor)
                     ELSE <<>>
    IN  Take(from, take)

\* getMessagesPaginated without the reversal to ascending order
getMessagesPaginated_NoReverse(rows, sessionId, limitArg, cursor) ==
    LET limit == IF limitArg = Undefined THEN DefaultLimit ELSE limitArg
        msgs == findManyDesc(rows, sessionId, limit + 1, cursor)
        hasNextPage == Len(msgs) > limit
        edges == IF hasNextPage THEN SubSeq(msgs, 1, Len(msgs) - 1) ELSE msgs
    IN  [edges |-> mapMessages(edges),
         nextCursor |-> IF hasNextPage /\ Len(msgs) - 1 >= 1
                        THEN msgs[Len(msgs) - 1].id
                        ELSE Undefined]

getMessagesPaginated(rows, sessionId, limitArg, cursor) ==
    LET limit == IF limitArg = Undefined THEN DefaultLimit ELSE limitArg
        msgs == findManyDesc(rows, sessionId, limit + 1, cursor)
        hasNextPage == Len(msgs) > limit
        edges == IF hasNextPage THEN SubSeq(msgs, 1, Len(msgs) - 1) ELSE msgs
    IN  [edges |-> mapMessages(Reverse(edges)),
         nextCursor |-> IF hasNextPage /\ Len(msgs) - 1 >= 1
                        THEN msgs[Len(msgs) - 1].id
                        ELSE Undefined]

\* ------------------------------------------------------------ vector store
\* A query response of the vector store.  Each of documents, metadatas and
\* distances is a record [kind, items]:
\*   kind "absent"  : the field itself is undefined/null (results.distances)
\*   kind "noinner" : the field is an array whose element [0] is undefined
\*   kind "list"    : field[0] is the array items
Absent == [kind |-> "absent", items |-> <<>>]
NoInner == [kind |-> "noinner", items |-> <<>>]
List(xs) == [kind |-> "list", items |-> xs]

\* metadata entries: present = FALSE is a null/undefined entry; filename ""
\* and document_index Undefined are absent fields
Meta(f, d) == [present |-> TRUE, filename |-> f, document_index |-> d]
NullMeta == [present |-> FALSE, filename |-> "", document_index |-> Undefined]

DocText(i) ==
    CASE i = 1 -> <<"Standard ", "shipping", " is free over $50.">>
      [] i = 2 -> <<"Items can be sent back within 30 days.">>
      [] OTHER -> <<>>

DocMeta(i) ==
    CASE i = 1 -> Meta("faq.txt", 3)
      [] i = 2 -> Meta("", 7)
      [] i = 3 -> NullMeta
      [] OTHER -> Meta("policy.md", Undefined)

DocDistance(i) == 10 * i + 7

\* responses whose three arrays are parallel, with n matches
WellFormed(n, withDistances) ==
    [documents |-> List([i \in 1..n |-> DocText(i)]),
     metadatas |-> List([i \in 1..n |-> DocMeta(i)]),
     distances |-> IF withDistances THEN List([i \in 1..n |-> DocDistance(i)])
                   ELSE Absent]

\* responses whose arrays are missing or not parallel
Malformed(n) ==
    LET w == WellFormed(n, TRUE)
    IN  {[w EXCEPT !.documents = Absent],
         [w EXCEPT !.documents = NoInner],
         [w EXCEPT !.metadatas = Absent],
         [w EXCEPT !.metadatas = NoInner],
         [w EXCEPT !.distances = NoInner]}
        \cup (IF n >= 1
              THEN {[w EXCEPT !.metadatas = List(SubSeq(w.metadatas.items, 1, n - 1))],
                    [w EXCEPT !.distances = List(SubSeq(w.distances.items, 1, n - 1))]}
              ELSE {})

\* ------------------------------------------------------------ RAG service
\* mapChunk with a default score of 0 when the store leaves distances out
mapChunk_ZeroScore(results, index) ==
    LET md == results.metadatas
        entry == IF index <= Len(md.items) THEN md.items[index] ELSE NullMeta
        ds == results.distances
    IN  [threw |-> md.kind # "list" \/ ds.kind = "noinner",
         chunk |-> [content |-> results.documents.items[index],
                    filename |-> IF entry.present /\ entry.filename # ""
                                 THEN entry.filename ELSE "unknown",
                    documentId |-> IF entry.present /\ entry.document_index # Undefined
                                      /\ entry.document_index # 0
                                   THEN entry.document_index ELSE 0,
                    score |-> IF ds.kind = "absent" THEN 0
                              ELSE IF index <= Len(ds.items) THEN ds.items[index]
                              ELSE Undefined]]

\* rag.service.ts:57-62: the chunk built from position index of the response;
\* threw is the TypeError of indexing an undefined array
mapChunk(results, index) ==
    LET md == results.metadatas
        entry == IF index <= Len(md.items) THEN md.items[index] ELSE NullMeta
        ds == results.distances
    IN  [threw |-> md.kind # "list" \/ ds.kind = "noinner",
         chunk |-> [content |-> results.documents.items[index],
                    filename |-> IF entry.present /\ entry.filename # ""
                                 THEN entry.filename ELSE "unknown",
                    documentId |-> IF entry.present /\ entry.document_index # Undefined
                                      /\ entry.document_index # 0
                                   THEN entry.document_index ELSE 0,
                    score |-> IF ds.kind = "absent" THEN 50
                              ELSE IF index <= Len(ds.items) THEN ds.items[index]
                              ELSE Undefined]]

\* rag.service.ts:50-62: what the body of the try block does with a response
mapResults(results) ==
    LET docs == results.documents
        n == Len(docs.items)
    IN  IF docs.kind = "absent" THEN [threw |-> TRUE, chunks |-> <<>>]
        ELSE IF docs.kind = "noinner" \/ n = 0 THEN [threw |-> FALSE, chunks |-> <<>>]
        ELSE IF \E i \in 1..n : mapChunk(results, i).threw
             THEN [threw |-> TRUE, chunks |-> <<>>]
        ELSE [threw |-> FALSE, chunks |-> [i \in 1..n |-> mapChunk(results, i).chunk]]

\* rag.service.ts:63-66: the catch block of retrieveRelevantChunks
catchRetrieval(outcome) ==
    [raised |-> FALSE,
     chunks |-> IF outcome.threw THEN <<>> ELSE outcome.chunks]

\* rag.service.ts:82-84: "From <filename>: <content>" blocks joined by "\n\n"
contextBlock(chunk) == <<"From ", chunk.filename, ": ">> \o chunk.content

RECURSIVE joinBlocks(_)
joinBlocks(chunks) ==
    IF chunks = <<>> THEN <<>>
    ELSE IF Len(chunks) = 1 THEN contextBlock(chunks[1])
    ELSE contextBlock(chunks[1]) \o <<"\n\n">> \o joinBlocks(Tail(chunks))

TemplateHead ==
    <<"You are a helpful customer ", "support",
      " assistant. Use the following context to answer the user's question. Be specific and helpful.\n\nContext:\n">>

TemplateTail ==
    <<"\n\nPlease provide a helpful answer based ONLY on the context above. If the context doesn't contain the answer, say \"I don't have information about that in my knowledge base.\"">>

FallbackPrompt ==
    <<"You are a helpful customer ", "support",
      " assistant. The user is asking about ", "shipping",
      " options, but I couldn't find relevant information in the knowledge base. Please provide a general helpful response.">>

\* buildSystemPrompt using the template whatever the context
buildSystemPrompt_AlwaysTemplate(chunks) ==
    TemplateHead \o joinBlocks(chunks) \o TemplateTail

\* rag.service.ts:86-93: context ? template : fallback
buildSystemPrompt(chunks) ==
    LET context == joinBlocks(chunks)
    IN  IF context # <<>> THEN TemplateHead \o context \o TemplateTail
        ELSE FallbackPrompt

\* buildMessages with the query placed before the history
buildMessages_QueryFirst(systemPrompt, conversationHistory, query) ==
    <<[role |-> "system", content |-> systemPrompt]>>
    \o <<[role |-> "user", content |-> query]>>
    \o conversationHistory

\* rag.service.ts:95-99
buildMessages(systemPrompt, conversationHistory, query) ==
    <<[role |-> "system", content |-> systemPrompt]>>
    \o conversationHistory
    \o <<[role |-> "user", content |-> query]>>

\* buildCitations numbering the documents by position
buildCitations_ByPosition(chunks) ==
    [i \in 1..Len(chunks) |->
        [documentId |-> "doc_" \o ToString(i),
         filename |-> chunks[i].filename,
         score |-> chunks[i].score]]

\* rag.service.ts:104-108
buildCitations(chunks) ==
    [i \in 1..Len(chunks) |->
        [documentId |-> "doc_" \o ToString(chunks[i].documentId),
         filename |-> chunks[i].filename,
         score |-> chunks[i].score]]

\* ---------------------------------------------------------- LLM providers
\* The topic keywords that occur as substrings of a token of this model's
\* vocabulary (String.prototype.includes, applied token-wise).
Keywords(tok) ==
    CASE tok = "shipping" -> {"shipping", "ship"}
      [] tok = "how much" -> {"how much"}
      [] tok = " cost?" -> {"cost"}
      [] tok = "support" -> {"support"}
      [] tok = "order" -> {"order"}
      [] tok = " is free over $50." -> {"free"}
      [] OTHER -> {}

\* String.prototype.toLowerCase on a token
Lower(tok) ==
    CASE tok = "How much" -> "how much"
      [] tok = "Where is my " -> "where is my "
      [] tok = "Hello there" -> "hello there"
      [] tok = "You are a terse assistant." -> "you are a terse assistant."
      [] tok = "Sure." -> "sure."
      [] tok = "You are a helpful customer " -> "you are a helpful customer "
      [] tok = " assistant. The user is asking about " -> " assistant. the user is asking about "
      [] tok = " options, but I couldn't find relevant information in the knowledge base. Please provide a general helpful response."
            -> " options, but i couldn't find relevant information in the knowledge base. please provide a general helpful response."
      [] OTHER -> tok

toLowerCase(text) == [i \in 1..Len(text) |-> Lower(text[i])]

includes(text, kw) == \E i \in 1..Len(text) : kw \in Keywords(text[i])

includesAny(text, kws) == \E kw \in kws : includes(text, kw)

RECURSIVE StrLen(_)
StrLen(text) == IF text = <<>> THEN 0 ELSE Len(Head(text)) + StrLen(Tail(text))

ShippingCost == <<"Based on our shipping policy: Standard shipping is free on orders over $50, otherwise it's $4.99. Express shipping costs $9.99, and overnight shipping is $19.99.">>
ShippingTime == <<"Our delivery times are: Standard shipping takes 3-5 business days, Express shipping takes 1-2 business days, and Overnight shipping arrives the next business day.">>
ShippingFree == <<"Yes, we offer free standard shipping on all orders over $50. The free shipping is applied automatically at checkout.">>
ShippingGeneral == <<"We offer several shipping options: Standard (3-5 days), Express (1-2 days), and Overnight (next day). Free shipping is available on orders over $50.">>
ReturnTime == <<"You can return items within 30 days of purchase. Refunds are typically processed within 5-7 business days after we receive your return.">>
ReturnCondition == <<"To return an item, it must be in its original condition with all tags attached and in the original packaging. Please include your order number with the return.">>
ReturnCost == <<"Return shipping is free for defective or incorrect items. For other returns, you're responsible for return shipping costs unless you purchased return shipping protection.">>
ReturnGeneral == <<"Our return policy allows returns within 30 days of purchase. Items must be in original condition with tags attached. Refunds are processed within 5-7 business days.">>
ContactPhone == <<"You can reach our customer service team at 1-800-123-4567. Our phone lines are open Monday through Friday from 9 AM to 6 PM EST.">>
ContactEmail == <<"You can email us at support@company.com. We typically respond to emails within 24 hours during business days.">>
ContactHours == <<"Our customer service hours are Monday to Friday, 9:00 AM to 6:00 PM EST. We're closed on weekends and major holidays.">>
ContactGeneral == <<"You can contact us by phone at 1-800-123-4567, by email at support@company.com, or through live chat on our website during business hours.">>
ProductAnswer == <<"I'd be happy to help you with product information. Could you please specify which product you're asking about? Our knowledgeable staff can provide detailed specifications and availability.">>
OrderAnswer == <<"To check your order status or track a package, please have your order number ready and visit the 'Order Status' page on our website, or contact our customer service team.">>
PaymentAnswer == <<"We accept all major credit cards (Visa, MasterCard, American Express, Discover), PayPal, and Apple Pay for your convenience.">>
GenericAnswer(userMessage) ==
    <<"I understand you're asking about \"">> \o userMessage
    \o <<"\". In a production environment with OpenAI GPT-4, I would provide a comprehensive answer based on our company knowledge base. For now, I recommend checking our website's help section or contacting customer service for detailed information about this topic.">>

\* generateContextAwareResponse looking at the query only
generateContextAwareResponse_QueryOnly(userMessage, systemPrompt) ==
    LET lowerMessage == toLowerCase(userMessage)
        has(kws) == includesAny(lowerMessage, kws)
        hasShippingInfo == FALSE
        hasReturnInfo == FALSE
        hasContactInfo == FALSE
    IN  IF has({"shipping", "delivery"}) \/ hasShippingInfo
        THEN IF has({"cost", "price", "how much"}) THEN ShippingCost
             ELSE IF has({"time", "long", "when"}) THEN ShippingTime
             ELSE IF has({"free"}) THEN ShippingFree
             ELSE ShippingGeneral
        ELSE IF has({"return", "refund"}) \/ hasReturnInfo
        THEN IF has({"how long", "time", "when"}) THEN ReturnTime
             ELSE IF has({"condition", "how to"}) THEN ReturnCondition
             ELSE IF has({"cost", "free return"}) THEN ReturnCost
             ELSE ReturnGeneral
        ELSE IF has({"contact", "phone", "email", "call"}) \/ hasContactInfo
        THEN IF has({"phone", "call", "number"}) THEN ContactPhone
             ELSE IF has({"email"}) THEN ContactEmail
             ELSE IF has({"hour", "time", "when"}) THEN ContactHours
             ELSE ContactGeneral
        ELSE IF has({"product", "item"}) THEN ProductAnswer
        ELSE IF has({"order", "track"}) THEN OrderAnswer
        ELSE IF has({"payment", "pay"}) THEN PaymentAnswer
        ELSE GenericAnswer(userMessage)

\* llm.provider.ts MockLLMProvider.generateContextAwareResponse
generateContextAwareResponse(userMessage, systemPrompt) ==
    LET lowerMessage == toLowerCase(userMessage)
        has(kws) == includesAny(lowerMessage, kws)
        hasShippingInfo == includesAny(systemPrompt, {"shipping", "delivery", "ship"})
        hasReturnInfo == includesAny(systemPrompt, {"return", "refund", "exchange"})
        hasContactInfo == includesAny(systemPrompt, {"contact", "phone", "email", "support"})
    IN  IF has({"shipping", "delivery"}) \/ hasShippingInfo
        THEN IF has({"cost", "price", "how much"}) THEN ShippingCost
             ELSE IF has({"time", "long", "when"}) THEN ShippingTime
             ELSE IF has({"free"}) THEN ShippingFree
             ELSE ShippingGeneral
        ELSE IF has({"return", "refund"}) \/ hasReturnInfo
        THEN IF has({"how long", "time", "when"}) THEN ReturnTime
             ELSE IF has({"condition", "how to"}) THEN ReturnCondition
             ELSE IF has({"cost", "free return"}) THEN ReturnCost
             ELSE ReturnGeneral
        ELSE IF has({"contact", "phone", "email", "call"}) \/ hasContactInfo
        THEN IF has({"phone", "call", "number"}) THEN ContactPhone
             ELSE IF has({"email"}) THEN ContactEmail
             ELSE IF has({"hour", "time", "when"}) THEN ContactHours
             ELSE ContactGeneral
        ELSE IF has({"product", "item"}) THEN ProductAnswer
        ELSE IF has({"order", "track"}) THEN OrderAnswer
        ELSE IF has({"payment", "pay"}) THEN PaymentAnswer
        ELSE GenericAnswer(userMessage)

\* MockGenerateCompletion answering about the lower-cased query text
MockGenerateCompletion_LoweredQuery(msgs, temperature) ==
    LET userMessage == IF msgs = <<>> THEN <<>> ELSE toLowerCase(msgs[Len(msgs)].content)
        systemPrompt == IF msgs = <<>> THEN <<>> ELSE msgs[1].content
        content == generateContextAwareResponse(userMessage, systemPrompt)
    IN  [threw |-> FALSE, content |-> content,
         tokensUsed |-> (StrLen(content) \div 4) + 50]

\* llm.provider.ts MockLLMProvider.generateCompletion
MockGenerateCompletion(msgs, temperature) ==
    LET userMessage == IF msgs = <<>> THEN <<>> ELSE msgs[Len(msgs)].content
        systemPrompt == IF msgs = <<>> THEN <<>> ELSE msgs[1].content
        content == generateContextAwareResponse(userMessage, systemPrompt)
    IN  [threw |-> FALSE, content |-> content,
         tokensUsed |-> (StrLen(content) \div 4) + 50]

\* llm.provider.ts OpenAIProvider.generateCompletion: always throws
OpenAIGenerateCompletion(msgs, temperature) ==
    [threw |-> TRUE, content |-> <<>>, tokensUsed |-> 0]

\* llm.provider.ts LLM_PROVIDERS and chat.module.ts useClass: the provider
\* class bound to a value of MODEL_PROVIDER
ProviderNames == {"openai", "llama", "mock"}

LLM_PROVIDERS(name) ==
    CASE name = "openai" -> "OpenAIProvider"
      [] name = "llama" -> "MockLLMProvider"
      [] name = "mock" -> "MockLLMProvider"
      [] OTHER -> "undefined"

\* the classes implementing LLMProvider: llm.provider.ts and ollama.provider.ts
ProviderClasses == {"OllamaProvider", "OpenAIProvider", "MockLLMProvider"}

generateCompletion(class, msgs, temperature) ==
    IF class = "OpenAIProvider" THEN OpenAIGenerateCompletion(msgs, temperature)
    ELSE MockGenerateCompletion(msgs, temperature)

\* ------------------------------------------------------------------- state
SeedTurn(i, sid) ==
    [id |-> i, sessionId |-> sid,
     role |-> IF i % 2 = 1 THEN "user" ELSE "assistant",
     content |-> IF i % 2 = 1 THEN <<"hello">> ELSE ShippingGeneral,
     tokensUsed |-> IF i % 2 = 1 THEN Undefined ELSE (StrLen(ShippingGeneral) \div 4) + 50]

NoPage == [sessionId |-> "s1", limit |-> 0, cursor |-> 0,
           edges |-> <<>>, nextCursor |-> Undefined, asked |-> FALSE]

NoResult == [answer |-> <<>>, citations |-> <<>>, tokensUsed |-> 0]

IdleCall ==
    [pc |-> "idle", kind |-> "chat",
     sessionId |-> "s1", query |-> <<>>, topK |-> 0,       \* the input
     botId |-> "b1", temperature |-> 0, history |-> <<>>,  \* locals
     waited |-> FALSE, outcome |-> "none",                 \* what retrieval met
     response |-> WellFormed(0, TRUE),                     \* the store's answer
     chunks |-> <<>>,                                      \* relevantChunks
     sent |-> <<>>, sentTemperature |-> 0,                 \* generateCompletion arguments
     result |-> NoResult, error |-> "",                    \* what the caller gets
     userMsgId |-> 0, asstMsgId |-> 0,                     \* rows this call created
     retrieverCalls |-> 0, providerCalls |-> 0]

\* the database as the seed script leaves it (bot-1, temperature 0.3), with a
\* session of that bot holding n messages of earlier turns
InitStore(n) ==
    /\ messages = [i \in 1..n |-> SeedTurn(i, "s1")]
    /\ sessions = [s \in SessionIds |-> [exists |-> s = "s1", botId |-> "b1"]]
    /\ bots = [b \in BotIds |-> [exists |-> b = "b1", temperature |-> DefaultTemperature]]

\* a freshly constructed OllamaProvider: availableModels = [], and the
\* initializeModels() the constructor started is still running
NewOllama ==
    [pc |-> "idle", booting |-> TRUE, availableModels |-> <<>>,
     temperature |-> 0,                      \* generateCompletion argument
     discovered |-> <<>>,                    \* the list as the call's own discovery left it
     overtaken |-> FALSE,                    \* the list read is not that one any more
     known |-> <<>>, model |-> "",           \* what getAvailableModel read and chose
     sentTemperature |-> 0,                  \* options.temperature of the request
     error |-> ""]

Filenames == {"faq.txt", "policy.md", "terms.pdf"}

IdleIngest ==
    [pc |-> "idle", botId |-> "b1", input |-> <<>>,
     statusCalls |-> <<>>,                   \* statuses handed to updateDocumentStatus
     returned |-> FALSE, error |-> ""]

InitRest ==
    /\ chroma = "pending"
    /\ provider \in ProviderNames
    /\ calls = [c \in CallIds |-> IdleCall]
    /\ page = NoPage
    /\ prevPage = NoPage
    /\ ollama = NewOllama
    /\ documents = [f \in Filenames |-> "absent"]
    /\ ingest = IdleIngest

Init == (\E n \in 0..MaxChatSeed : InitStore(n)) /\ InitRest

\* for pagination both sessions exist and the third seeded message belongs
\* to session s2, so that the ids of a session are not contiguous
InitPage ==
    /\ \E n \in 0..MaxSeed :
          messages = [i \in 1..n |-> SeedTurn(i, IF i = 3 THEN "s2" ELSE "s1")]
    /\ sessions = [s \in SessionIds |-> [exists |-> TRUE, botId |-> "b1"]]
    /\ bots = [b \in BotIds |-> [exists |-> b = "b1", temperature |-> DefaultTemperature]]
    /\ InitRest

\* ------------------------------------------------------------------ inputs
Queries ==
    {<<"How much", " does ", "shipping", " cost?">>,
     <<"hello">>}

\* the queries generateAnswer is called with directly
RagQueries == Queries \cup {<<"Where is my ", "order", "?">>}

Temperatures == {Undefined, -50, 0, 5, 10, 100, 200}

ExplicitTopKs == 0..MaxTopK

\* what collection.query can answer to a request for topK matches
Responses(topK) ==
    LET most == IF topK < MaxDocs THEN topK ELSE MaxDocs
    IN  UNION {{WellFormed(n, TRUE), WellFormed(n, FALSE)} \cup Malformed(n) : n \in 0..most}

\* the answers the chat specification draws from
ChatResponses(topK) ==
    LET most == IF topK < MaxDocs THEN topK ELSE MaxDocs
    IN  {WellFormed(most, TRUE)}

\* ------------------------------------------------------------ bot / session
\* BotService.create
CreateBot(b, t) ==
    /\ ~bots[b].exists
    /\ bots' = [bots EXCEPT ![b] = [exists |-> TRUE, temperature |-> t]]
    /\ UNCHANGED <<messages, sessions, chroma, provider, calls, page, prevPage, ollama, documents, ingest>>

\* ChatService.createSession
CreateSession(s, botId) ==
    /\ ~sessions[s].exists
    /\ sessions' = [sessions EXCEPT ![s] = [exists |-> TRUE, botId |-> botId]]
    /\ UNCHANGED <<messages, bots, chroma, provider, calls, page, prevPage, ollama, documents, ingest>>

\* RAGService.initializeChroma settles: the import succeeded or threw
InitializeChroma(ok) ==
    /\ chroma = "pending"
    /\ chroma' = IF ok THEN "ready" ELSE "failed"
    /\ UNCHANGED <<messages, sessions, bots, provider, calls, page, prevPage, ollama, documents, ingest>>

\* ------------------------------------------------------------------- chat
\* createMessage writing over the newest row instead of adding one
createMessage_ReplacesLast(rows, sessionId, role, content, tokensUsed) ==
    IF rows = <<>>
    THEN <<[id |-> 1, sessionId |-> sessionId, role |-> role,
            content |-> content, tokensUsed |-> tokensUsed]>>
    ELSE [rows EXCEPT ![Len(rows)] =
             [id |-> Len(rows), sessionId |-> sessionId, role |-> role,
              content |-> content, tokensUsed |-> tokensUsed]]

\* ChatService.createMessage
createMessage(rows, sessionId, role, content, tokensUsed) ==
    Append(rows, [id |-> Len(rows) + 1, sessionId |-> sessionId, role |-> role,
                  content |-> content, tokensUsed |-> tokensUsed])

\* getMessages returning the most recent rows instead of the oldest
getMessages_MostRecent(rows, sessionId, limit) ==
    LET asc == SessionAsc(rows, sessionId)
    IN  mapMessages(SubSeq(asc, IF Len(asc) > limit THEN Len(asc) - limit + 1 ELSE 1,
                           Len(asc)))

\* ChatService.getMessages(sessionId, limit)
getMessages(rows, sessionId, limit) ==
    mapMessages(Take(SessionAsc(rows, sessionId), limit))

\* chat.resolver.ts:60-63
toHistory(msgs) == [i \in 1..Len(msgs) |-> [role |-> msgs[i].role, content |-> msgs[i].content]]

\* chat.resolver.ts:75: bot.temperature || 0.3
temperatureArgument(t) == IF t = Undefined \/ t = 0 THEN DefaultTemperature ELSE t

\* chat.resolver.ts:47-52: the input is destructured and getSession answers
ChatGetSession(c, sessionId, message, topK) ==
    /\ calls[c].pc = "idle"
    /\ LET input == [IdleCall EXCEPT !.kind = "chat", !.sessionId = sessionId,
                                     !.query = message,
                                     !.topK = IF topK = Undefined THEN DefaultTopK ELSE topK]
       IN  calls' = [calls EXCEPT ![c] =
                IF sessions[sessionId].exists
                THEN [input EXCEPT !.pc = "getBot", !.botId = sessions[sessionId].botId]
                ELSE [input EXCEPT !.pc = "failed", !.error = "Session not found"]]
    /\ UNCHANGED <<messages, sessions, bots, chroma, provider, page, prevPage, ollama, documents, ingest>>

\* ChatGetBot going on without looking whether the bot was found
ChatGetBot_NoCheck(c) ==
    /\ calls[c].pc = "getBot"
    /\ calls' = [calls EXCEPT ![c] =
            [@ EXCEPT !.pc = "getMessages",
                      !.temperature = bots[calls[c].botId].temperature]]
    /\ UNCHANGED <<messages, sessions, bots, chroma, provider, page, prevPage, ollama, documents, ingest>>

\* chat.resolver.ts:54-57
ChatGetBot(c) ==
    /\ calls[c].pc = "getBot"
    /\ calls' = [calls EXCEPT ![c] =
            IF bots[calls[c].botId].exists
            THEN [@ EXCEPT !.pc = "getMessages",
                           !.temperature = bots[calls[c].botId].temperature]
            ELSE [@ EXCEPT !.pc = "failed", !.error = "Bot not found"]]
    /\ UNCHANGED <<messages, sessions, bots, chroma, provider, page, prevPage, ollama, documents, ingest>>

\* chat.resolver.ts:59-63
ChatGetMessages(c) ==
    /\ calls[c].pc = "getMessages"
    /\ calls' = [calls EXCEPT ![c] =
            [@ EXCEPT !.pc = "createUserMessage",
                      !.history = toHistory(getMessages(messages, calls[c].sessionId,
                                                         HistoryLimit))]]
    /\ UNCHANGED <<messages, sessions, bots, chroma, provider, page, prevPage, ollama, documents, ingest>>

\* chat.resolver.ts:65-77: the user message is written, then generateAnswer
\* is entered with bot.temperature || 0.3
ChatCreateUserMessage(c) ==
    /\ calls[c].pc = "createUserMessage"
    /\ messages' = createMessage(messages, calls[c].sessionId, "user", calls[c].query, Undefined)
    /\ calls' = [calls EXCEPT ![c] =
            [@ EXCEPT !.pc = "retrieve",
                      !.userMsgId = Len(messages) + 1,
                      !.temperature = temperatureArgument(calls[c].temperature)]]
    /\ UNCHANGED <<sessions, bots, chroma, provider, page, prevPage, ollama, documents, ingest>>

\* --------------------------------------------------------- generateAnswer
Histories ==
    LET pool == {[role |-> "user", content |-> <<"hello">>],
                 [role |-> "assistant", content |-> ShippingGeneral]}
    IN  UNION {[1..n -> pool] : n \in 0..MaxHistory}

\* RAGService.generateAnswer called directly, with its default parameters
GenerateAnswer(c, botId, query, conversationHistory, temperature, topK) ==
    /\ calls[c].pc = "idle"
    /\ calls' = [calls EXCEPT ![c] =
            [IdleCall EXCEPT !.pc = "retrieve", !.kind = "rag", !.botId = botId,
                      !.query = query, !.history = conversationHistory,
                      !.temperature = IF temperature = Undefined
                                      THEN DefaultTemperature ELSE temperature,
                      !.topK = IF topK = Undefined THEN DefaultTopK ELSE topK]]
    /\ UNCHANGED <<messages, sessions, bots, chroma, provider, page, prevPage, ollama, documents, ingest>>

\* rag.service.ts:76-102: retrieveRelevantChunks has returned or raised; the
\* prompt is assembled and generateCompletion is invoked
afterRetrieval(call, outcome, retrieved) ==
    IF retrieved.raised
    THEN [call EXCEPT !.pc = "failed", !.error = "Retrieval failed", !.outcome = outcome]
    ELSE [call EXCEPT !.pc = "generateCompletion",
                      !.outcome = outcome,
                      !.chunks = retrieved.chunks,
                      !.sent = buildMessages(buildSystemPrompt(retrieved.chunks),
                                             call.history, call.query),
                      !.sentTemperature = call.temperature,
                      !.providerCalls = call.providerCalls + 1]

\* rag.service.ts:29-35: retrieveRelevantChunks is entered; without a client it
\* waits one second
RetrieveStart(c) ==
    /\ calls[c].pc = "retrieve"
    /\ calls' = [calls EXCEPT ![c] =
            [@ EXCEPT !.pc = IF chroma = "ready" THEN "getCollection" ELSE "wait",
                      !.waited = chroma # "ready",
                      !.retrieverCalls = @ + 1]]
    /\ UNCHANGED <<messages, sessions, bots, chroma, provider, page, prevPage, ollama, documents, ingest>>

\* rag.service.ts:34: the one-second wait is over
RetrieveWaited(c) ==
    /\ calls[c].pc = "wait"
    /\ calls' = [calls EXCEPT ![c] = [@ EXCEPT !.pc = "getCollection"]]
    /\ UNCHANGED <<messages, sessions, bots, chroma, provider, page, prevPage, ollama, documents, ingest>>

\* rag.service.ts:37-42: this.chroma.getCollection; without a client the
\* member access throws, otherwise the store finds the collection or not
RetrieveGetCollection(c, found) ==
    /\ calls[c].pc = "getCollection"
    /\ calls' = [calls EXCEPT ![c] =
            IF chroma # "ready"
            THEN afterRetrieval(@, "no client",
                                catchRetrieval([threw |-> TRUE, chunks |-> <<>>]))
            ELSE IF ~found
            THEN afterRetrieval(@, "no collection",
                                catchRetrieval([threw |-> TRUE, chunks |-> <<>>]))
            ELSE [@ EXCEPT !.pc = "query"]]
    /\ UNCHANGED <<messages, sessions, bots, chroma, provider, page, prevPage, ollama, documents, ingest>>

\* rag.service.ts:46-49: collection.query throws
RetrieveQueryFails(c) ==
    /\ calls[c].pc = "query"
    /\ calls' = [calls EXCEPT ![c] =
            afterRetrieval(@, "query failed",
                           catchRetrieval([threw |-> TRUE, chunks |-> <<>>]))]
    /\ UNCHANGED <<messages, sessions, bots, chroma, provider, page, prevPage, ollama, documents, ingest>>

\* rag.service.ts:46-62: collection.query answers and the answer is mapped
RetrieveQuery(c, results) ==
    /\ calls[c].pc = "query"
    /\ calls' = [calls EXCEPT ![c] =
            afterRetrieval([@ EXCEPT !.response = results], "response",
                           catchRetrieval(mapResults(results)))]
    /\ UNCHANGED <<messages, sessions, bots, chroma, provider, page, prevPage, ollama, documents, ingest>>

\* ProviderSettles answering with an empty text when the provider throws
ProviderSettles_Swallow(c) ==
    /\ calls[c].pc = "generateCompletion"
    /\ LET response == generateCompletion(LLM_PROVIDERS(provider), calls[c].sent,
                                          calls[c].sentTemperature)
       IN  calls' = [calls EXCEPT ![c] =
                [@ EXCEPT !.pc = IF calls[c].kind = "chat" THEN "createAssistantMessage"
                                 ELSE "done",
                          !.result = [answer |-> response.content,
                                      citations |-> buildCitations(calls[c].chunks),
                                      tokensUsed |-> response.tokensUsed]]]
    /\ UNCHANGED <<messages, sessions, bots, chroma, provider, page, prevPage, ollama, documents, ingest>>

\* rag.service.ts:102-116: generateCompletion settles; generateAnswer returns
\* the answer with its citations or the provider's error propagates
ProviderSettles(c) ==
    /\ calls[c].pc = "generateCompletion"
    /\ LET response == generateCompletion(LLM_PROVIDERS(provider), calls[c].sent,
                                          calls[c].sentTemperature)
       IN  calls' = [calls EXCEPT ![c] =
                IF response.threw
                THEN [@ EXCEPT !.pc = "failed", !.error = "Provider failed"]
                ELSE [@ EXCEPT !.pc = IF calls[c].kind = "chat" THEN "createAssistantMessage"
                                      ELSE "done",
                               !.result = [answer |-> response.content,
                                           citations |-> buildCitations(calls[c].chunks),
                                           tokensUsed |-> response.tokensUsed]]]
    /\ UNCHANGED <<messages, sessions, bots, chroma, provider, page, prevPage, ollama, documents, ingest>>

\* chat.resolver.ts:79-86
ChatCreateAssistantMessage(c) ==
    /\ calls[c].pc = "createAssistantMessage"
    /\ messages' = createMessage(messages, calls[c].sessionId, "assistant",
                                 calls[c].result.answer, calls[c].result.tokensUsed)
    /\ calls' = [calls EXCEPT ![c] = [@ EXCEPT !.pc = "done",
                                               !.asstMsgId = Len(messages) + 1]]
    /\ UNCHANGED <<sessions, bots, chroma, provider, page, prevPage, ollama, documents, ingest>>

\* the caller has its result or its error; the call is over
CallReturns(c) ==
    /\ calls[c].pc \in {"done", "failed"}
    /\ calls' = [calls EXCEPT ![c] = IdleCall]
    /\ UNCHANGED <<messages, sessions, bots, chroma, provider, page, prevPage, ollama, documents, ingest>>

Retrieval(c) ==
    \/ RetrieveStart(c)
    \/ RetrieveWaited(c)
    \/ \E found \in BOOLEAN : RetrieveGetCollection(c, found)
    \/ RetrieveQueryFails(c)

\* a chat turn starts only while the store holds fewer than MaxMessages rows
Room == Len(messages) < MaxMessages

Next ==
    \/ \E b \in BotIds, t \in Temperatures : CreateBot(b, t)
    \/ \E s \in SessionIds, b \in BotIds : CreateSession(s, b)
    \/ \E ok \in BOOLEAN : InitializeChroma(ok)
    \/ /\ Room
       /\ \E s \in SessionIds, q \in Queries, k \in ExplicitTopKs \cup {Undefined} :
             ChatGetSession("c1", s, q, k)
    \/ ChatGetBot("c1")
    \/ ChatGetMessages("c1")
    \/ ChatCreateUserMessage("c1")
    \/ Retrieval("c1")
    \/ \E r \in ChatResponses(calls["c1"].topK) : RetrieveQuery("c1", r)
    \/ ProviderSettles("c1")
    \/ ChatCreateAssistantMessage("c1")
    \/ CallReturns("c1")

Spec == Init /\ [][Next]_vars

\* generateAnswer alone, called directly with inputs of every shape
NextRag ==
    \/ \E ok \in BOOLEAN : InitializeChroma(ok)
    \/ \E q \in RagQueries, h \in Histories, t \in Temperatures,
          k \in ExplicitTopKs \cup {Undefined} :
          GenerateAnswer("c1", "b1", q, h, t, k)
    \/ Retrieval("c1")
    \/ \E r \in Responses(calls["c1"].topK) : RetrieveQuery("c1", r)
    \/ ProviderSettles("c1")
    \/ CallReturns("c1")

InitRag == InitStore(0) /\ InitRest

SpecRag == InitRag /\ [][NextRag]_vars

\* ------------------------------------------------------------- pagination
Ask(sessionId, limit, cursor) ==
    LET r == getMessagesPaginated(messages, sessionId, limit, cursor)
    IN  [sessionId |-> sessionId,
         limit |-> IF limit = Undefined THEN DefaultLimit ELSE limit,
         cursor |-> cursor,
         edges |-> r.edges, nextCursor |-> r.nextCursor, asked |-> TRUE]

\* ChatResolver.getMessages with a cursor the client chose (0: none)
GetMessages(sessionId, limit, cursor) ==
    /\ page' = Ask(sessionId, limit, cursor)
    /\ prevPage' = NoPage
    /\ UNCHANGED <<messages, sessions, bots, chroma, provider, calls, ollama, documents, ingest>>

\* ChatResolver.getMessages with the nextCursor of the page just received
GetMessagesNext ==
    /\ page.asked
    /\ page.nextCursor # Undefined
    /\ page' = Ask(page.sessionId, page.limit, page.nextCursor)
    /\ prevPage' = page
    /\ UNCHANGED <<messages, sessions, bots, chroma, provider, calls, ollama, documents, ingest>>

NextPage ==
    \/ \E s \in SessionIds, l \in (0..MaxLimit) \cup {Undefined}, c \in 0..(MaxSeed + 1) :
          GetMessages(s, l, c)
    \/ GetMessagesNext

SpecPage == InitPage /\ [][NextPage]_vars

\* ------------------------------------------------------ concurrent chat
\* two chat mutations in flight at once: NestJS runs each resolver call as
\* its own promise chain, so the calls interleave at every await
ChatStep(c) ==
    \/ ChatGetBot(c)
    \/ ChatGetMessages(c)
    \/ ChatCreateUserMessage(c)
    \/ Retrieval(c)
    \/ \E r \in ChatResponses(calls[c].topK) : RetrieveQuery(c, r)
    \/ ProviderSettles(c)
    \/ ChatCreateAssistantMessage(c)
    \/ CallReturns(c)

NextTwo ==
    \/ \E ok \in BOOLEAN : InitializeChroma(ok)
    \/ /\ Room
       /\ \E c \in CallIds, s \in SessionIds : ChatGetSession(c, s, <<"hello">>, Undefined)
    \/ \E c \in CallIds : ChatStep(c)

InitTwo == InitStore(0) /\ InitRest

SpecTwo == InitTwo /\ [][NextTwo]_vars

\* ------------------------------------------------- the mock provider alone
\* message lists of every shape up to MaxMockLen, handed to
\* MockLLMProvider.generateCompletion directly
MockMessages ==
    {[role |-> "system", content |-> FallbackPrompt],
     [role |-> "system", content |-> <<"You are a terse assistant.">>],
     [role |-> "assistant", content |-> <<"Sure.">>],
     [role |-> "user", content |-> <<>>],
     [role |-> "user", content |-> <<"hello">>],
     [role |-> "user", content |-> <<"Hello there">>],
     [role |-> "user", content |-> <<"How much", " does ", "shipping", " cost?">>],
     [role |-> "user", content |-> <<"Where is my ", "order", "?">>]}

MockMessageLists == UNION {[1..n -> MockMessages] : n \in 0..MaxMockLen}

\* one call of MockLLMProvider.generateCompletion(msgs); the record keeps the
\* argument and the LLMResponse
MockCompletion(c, msgs) ==
    /\ calls[c].pc = "idle"
    /\ LET r == MockGenerateCompletion(msgs, DefaultTemperature)
       IN  calls' = [calls EXCEPT ![c] =
               [IdleCall EXCEPT !.pc = "done", !.kind = "mock", !.sent = msgs,
                                !.sentTemperature = DefaultTemperature,
                                !.providerCalls = 1,
                                !.result = [answer |-> r.content, citations |-> <<>>,
                                            tokensUsed |-> r.tokensUsed]]]
    /\ UNCHANGED <<messages, sessions, bots, chroma, provider, page, prevPage, ollama, documents, ingest>>

NextMock ==
    \/ \E msgs \in MockMessageLists : MockCompletion("c1", msgs)
    \/ CallReturns("c1")

InitMock == InitStore(0) /\ InitRest /\ provider = "mock"

SpecMock == InitMock /\ [][NextMock]_vars

\* ------------------------------------------------------ the Ollama provider
ModelNames == {"llama2:7b", "mistral", "phi", "mistral:7b", "gemma:2b", "qwen:4b"}

ModelLists == UNION {[1..n -> ModelNames] : n \in 0..MaxModels}

\* what GET /api/tags can come to: an exception, a non-2xx answer, or a body
\* with or without a models array
TagsOutcomes ==
    {[kind |-> "throws", models |-> <<>>], [kind |-> "not ok", models |-> <<>>],
     [kind |-> "no models field", models |-> <<>>]}
    \cup {[kind |-> "ok", models |-> l] : l \in ModelLists}

\* ollama.provider.ts:17-32: availableModels after initializeModels
initializeModels(availableModels, outcome) ==
    IF outcome.kind = "ok" THEN outcome.models
    ELSE IF outcome.kind = "no models field" THEN <<>>
    ELSE availableModels

PreferredModels == <<"llama2:7b", "llama2", "mistral", "phi", "mistral:7b", "phi:2.7b">>

\* Array.prototype.includes
Contains(list, x) == \E i \in 1..Len(list) : list[i] = x

\* ollama.provider.ts:76-80: the loop over preferredModels ("": none found)
RECURSIVE firstPreferred(_, _)
firstPreferred(preferred, availableModels) ==
    IF preferred = <<>> THEN ""
    ELSE IF Contains(availableModels, Head(preferred)) THEN Head(preferred)
    ELSE firstPreferred(Tail(preferred), availableModels)

\* getAvailableModel without the fall-back to the first model listed
getAvailableModel_DefaultOnly(availableModels) ==
    IF Contains(availableModels, "llama2:7b") THEN "llama2:7b"
    ELSE IF firstPreferred(PreferredModels, availableModels) # ""
    THEN firstPreferred(PreferredModels, availableModels)
    ELSE "llama2:7b"

\* ollama.provider.ts:63-86: the choice getAvailableModel makes
getAvailableModel(availableModels) ==
    IF Contains(availableModels, "llama2:7b") THEN "llama2:7b"
    ELSE IF firstPreferred(PreferredModels, availableModels) # ""
    THEN firstPreferred(PreferredModels, availableModels)
    ELSE IF Len(availableModels) > 0 THEN availableModels[1]
    ELSE "llama2:7b"

\* ollama.provider.ts:123
clampTemperature(t) ==
    LET low == IF t < MaxTemperature THEN t ELSE MaxTemperature
    IN  IF low > MinTemperature THEN low ELSE MinTemperature

\* the initializeModels() call of the constructor settles
OllamaBooted(outcome) ==
    /\ ollama.booting
    /\ ollama' = [ollama EXCEPT !.booting = FALSE,
                                !.availableModels = initializeModels(@, outcome)]
    /\ UNCHANGED <<messages, sessions, bots, chroma, provider, calls, page, prevPage,
                   documents, ingest>>

\* ollama.provider.ts:34-40: generateCompletion up to its first await
OllamaGenerateCompletion(temperature) ==
    /\ ollama.pc = "idle"
    /\ ollama' = [ollama EXCEPT !.pc = "getAvailableModel",
                                !.temperature = IF temperature = Undefined
                                                THEN DefaultTemperature ELSE temperature]
    /\ UNCHANGED <<messages, sessions, bots, chroma, provider, calls, page, prevPage,
                   documents, ingest>>

\* ollama.provider.ts:17-32, 61: the initializeModels() that getAvailableModel
\* awaits settles; getAvailableModel itself resumes in a later turn, and the
\* initializeModels() of the constructor may assign the list in between
OllamaDiscoverySettles(outcome) ==
    /\ ollama.pc = "getAvailableModel"
    /\ LET L == initializeModels(ollama.availableModels, outcome)
       IN  ollama' = [ollama EXCEPT !.pc = "select",
                                    !.availableModels = L,
                                    !.discovered = L]
    /\ UNCHANGED <<messages, sessions, bots, chroma, provider, calls, page, prevPage,
                   documents, ingest>>

\* ollama.provider.ts:63-86, 110-128: getAvailableModel resumes, reads
\* this.availableModels and chooses; the request to /api/generate is sent
OllamaGetAvailableModel ==
    /\ ollama.pc = "select"
    /\ ollama' = [ollama EXCEPT !.pc = "callOllama",
                                !.discovered = <<>>,
                                !.overtaken = ollama.availableModels # ollama.discovered,
                                !.known = ollama.availableModels,
                                !.model = getAvailableModel(ollama.availableModels),
                                !.sentTemperature = clampTemperature(ollama.temperature)]
    /\ UNCHANGED <<messages, sessions, bots, chroma, provider, calls, page, prevPage,
                   documents, ingest>>

\* ollama.provider.ts:44-57, 131-138: the answer of /api/generate
OllamaCallSettles(outcome) ==
    /\ ollama.pc = "callOllama"
    /\ ollama' = [ollama EXCEPT
            !.pc = IF outcome = "ok" THEN "done" ELSE "failed",
            !.error = IF outcome = "ok" THEN ""
                      ELSE IF outcome = "not found" THEN "Ollama model not found"
                      ELSE "Ollama failed"]
    /\ UNCHANGED <<messages, sessions, bots, chroma, provider, calls, page, prevPage,
                   documents, ingest>>

\* the caller has its LLMResponse or its error
OllamaReturns ==
    /\ ollama.pc \in {"done", "failed"}
    /\ ollama' = [NewOllama EXCEPT !.booting = ollama.booting,
                                   !.availableModels = ollama.availableModels]
    /\ UNCHANGED <<messages, sessions, bots, chroma, provider, calls, page, prevPage,
                   documents, ingest>>

NextOllama ==
    \/ \E o \in TagsOutcomes : OllamaBooted(o)
    \/ \E t \in {Undefined, 5, 200} : OllamaGenerateCompletion(t)
    \/ \E o \in TagsOutcomes : OllamaDiscoverySettles(o)
    \/ OllamaGetAvailableModel
    \/ \E o \in {"ok", "not found", "error"} : OllamaCallSettles(o)
    \/ OllamaReturns

InitOllama == InitStore(0) /\ InitRest /\ provider = "llama"

SpecOllama == InitOllama /\ [][NextOllama]_vars

\* ------------------------------------------------------------- ingestion
\* the DocumentInput lists a client submits, by filename
IngestInputs == UNION {[1..n -> Filenames] : n \in 0..MaxIngest}

\* error.message of a failed POST to the ingestion service
PostErrors == {"connect ECONNREFUSED 127.0.0.1:8001", "Request failed with status code 500"}

\* BotService.updateDocumentStatus: logs and resolves; no row is written
updateDocumentStatus(rows, botId, input, status) == rows

\* bot.resolver.ts:38-48: the payload is built and posted
IngestDocuments(botId, input) ==
    /\ ingest.pc = "idle"
    /\ ingest' = [IdleIngest EXCEPT !.pc = "post", !.botId = botId, !.input = input]
    /\ UNCHANGED <<messages, sessions, bots, chroma, provider, calls, page, prevPage,
                   ollama, documents>>

\* bot.resolver.ts:48-53: the ingestion service answered 2xx
IngestPostSucceeds ==
    /\ ingest.pc = "post"
    /\ documents' = updateDocumentStatus(documents, ingest.botId, ingest.input, "completed")
    /\ ingest' = [ingest EXCEPT !.pc = "done", !.returned = TRUE,
                                !.statusCalls = Append(@, "completed")]
    /\ UNCHANGED <<messages, sessions, bots, chroma, provider, calls, page, prevPage,
                   ollama>>

\* bot.resolver.ts:54-57: the POST raised
IngestPostFails(message) ==
    /\ ingest.pc = "post"
    /\ documents' = updateDocumentStatus(documents, ingest.botId, ingest.input, "failed")
    /\ ingest' = [ingest EXCEPT !.pc = "failed",
                                !.statusCalls = Append(@, "failed"),
                                !.error = "Ingestion failed: " \o message]
    /\ UNCHANGED <<messages, sessions, bots, chroma, provider, calls, page, prevPage,
                   ollama>>

\* the caller has its IngestResult or its error
IngestReturns ==
    /\ ingest.pc \in {"done", "failed"}
    /\ ingest' = IdleIngest
    /\ UNCHANGED <<messages, sessions, bots, chroma, provider, calls, page, prevPage,
                   ollama, documents>>

NextIngest ==
    \/ \E b \in BotIds, input \in IngestInputs : IngestDocuments(b, input)
    \/ IngestPostSucceeds
    \/ \E m \in PostErrors : IngestPostFails(m)
    \/ IngestReturns

\* the document table holds a pending row for some of the files, and no row
\* for the others
InitIngest ==
    /\ InitStore(0)
    /\ chroma = "pending"
    /\ provider = "mock"
    /\ calls = [c \in CallIds |-> IdleCall]
    /\ page = NoPage
    /\ prevPage = NoPage
    /\ ollama = NewOllama
    /\ documents \in [Filenames -> {"absent", "pending"}]
    /\ ingest = IdleIngest

SpecIngest == InitIngest /\ [][NextIngest]_vars

\* ------------------------------------------------- one turn of a long chat
\* a stored message of an earlier turn, each with a content of its own
LongSeedTurn(i) ==
    [id |-> i, sessionId |-> IF i = 3 THEN "s2" ELSE "s1",
     role |-> IF i % 2 = 1 THEN "user" ELSE "assistant",
     content |-> <<"message ", ToString(i)>>,
     tokensUsed |-> IF i % 2 = 1 THEN Undefined ELSE 50 + i]

\* both sessions exist; up to MaxLongSeed messages are stored, the third of
\* them in session s2
InitLong ==
    /\ \E n \in 0..MaxLongSeed : messages = [i \in 1..n |-> LongSeedTurn(i)]
    /\ sessions = [s \in SessionIds |-> [exists |-> TRUE, botId |-> "b1"]]
    /\ bots = [b \in BotIds |-> [exists |-> b = "b1", temperature |-> DefaultTemperature]]
    /\ InitRest

\* one chat call carried through
NextLong ==
    \/ \E ok \in BOOLEAN : InitializeChroma(ok)
    \/ \E s \in SessionIds, q \in Queries : ChatGetSession("c1", s, q, Undefined)
    \/ ChatGetBot("c1")
    \/ ChatGetMessages("c1")
    \/ ChatCreateUserMessage("c1")
    \/ Retrieval("c1")
    \/ \E r \in ChatResponses(calls["c1"].topK) : RetrieveQuery("c1", r)
    \/ ProviderSettles("c1")
    \/ ChatCreateAssistantMessage("c1")

SpecLong == InitLong /\ [][NextLong]_vars

\* ================================================================= claims
Ids(rows) == [i \in 1..Len(rows) |-> rows[i].id]

\* ids of the messages of a session, oldest first
AscIds(sessionId) == Ids(SessionAsc(messages, sessionId))

\* C1: a first page of limit L (1 <= L < n, no cursor) holds the L most
\* recent messages in ascending order and its nextCursor is the id of the
\* newest message not on the page; the page fetched with that nextCursor
\* continues the first one, so that both together are the most recent
\* messages of the session with none repeated and none skipped.
C1_PagesAreContiguous ==
    LET asc == AscIds(page.sessionId)
        n == Len(asc)
        L == page.limit
        both == Ids(page.edges) \o Ids(prevPage.edges)
    IN  /\ (page.asked /\ ~prevPage.asked /\ page.cursor = 0 /\ 1 <= L /\ L < n)
              => /\ Ids(page.edges) = SubSeq(asc, n - L + 1, n)
                 /\ page.nextCursor = asc[n - L]
        /\ (page.asked /\ prevPage.asked /\ prevPage.cursor = 0 /\ 1 <= L)
              => /\ Len(both) <= n
                 /\ both = SubSeq(asc, n - Len(both) + 1, n)

\* the messages of a session from the cursor onwards (all without a cursor)
FromCursor(sessionId, cursor) ==
    {i \in 1..Len(messages) :
        /\ messages[i].sessionId = sessionId
        /\ cursor = 0 \/ (cursor <= Len(messages) /\ i <= cursor)}

\* C2: when at most limit messages lie from the cursor onwards, the page
\* holds every one of them in ascending creation order and has no nextCursor.
C2_LastPageIsComplete ==
    LET rest == FromCursor(page.sessionId, page.cursor)
    IN  (page.asked /\ Cardinality(rest) <= page.limit)
            => /\ page.nextCursor = Undefined
               /\ Len(page.edges) = Cardinality(rest)
               /\ \A i \in 1..Len(page.edges) : page.edges[i].id \in rest
               /\ \A i \in 1..(Len(page.edges) - 1) :
                      page.edges[i].id < page.edges[i + 1].id

C2_Witness ==
    /\ page.asked
    /\ page.cursor # 0
    /\ Cardinality(FromCursor(page.sessionId, page.cursor)) <= page.limit
    /\ Len(page.edges) >= 2

\* the call the claims below speak about
TheCall == calls["c1"]

\* generateCompletion has been invoked by the call
Invoked == TheCall.providerCalls = 1

\* C3: the sequence handed to generateCompletion has length |H|+2: the system
\* instruction first, then H in its original order, then the user message
\* with the query as content.
C3_MessageSequence ==
    LET H == TheCall.history
        sent == TheCall.sent
    IN  Invoked =>
            /\ Len(sent) = Len(H) + 2
            /\ sent[1].role = "system"
            /\ \/ sent[1].content = FallbackPrompt
               \/ SubSeq(sent[1].content, 1, Len(TemplateHead)) = TemplateHead
            /\ \A i \in 1..Len(H) : sent[i + 1] = H[i]
            /\ sent[Len(H) + 2] = [role |-> "user", content |-> TheCall.query]

C3_Witness ==
    /\ Invoked
    /\ Len(TheCall.history) = 2
    /\ TheCall.history[1] # TheCall.history[2]
    /\ Len(TheCall.sent) = 4

\* C4: after a successful generateAnswer the citations are as many as the
\* retrieved chunks, the i-th citation has the i-th chunk's filename and
\* score, and its documentId is "doc_" followed by the chunk's document index.
C4_Citations ==
    LET chunks == TheCall.chunks
        citations == TheCall.result.citations
    IN  (TheCall.pc \in {"createAssistantMessage", "done"}) =>
            /\ Len(citations) = Len(chunks)
            /\ \A i \in 1..Len(chunks) :
                  /\ citations[i].filename = chunks[i].filename
                  /\ citations[i].score = chunks[i].score
                  /\ citations[i].documentId
                        = "doc_" \o ToString(chunks[i].documentId)

C4_Witness ==
    /\ TheCall.pc = "done"
    /\ Len(TheCall.chunks) >= 2
    /\ Len(TheCall.result.citations) >= 2
    /\ TheCall.result.citations[1].documentId = "doc_3"
    /\ TheCall.result.citations[2].documentId = "doc_7"

\* position of the first token of the i-th context block in the context
BlockStart(chunks, i) ==
    LET RECURSIVE before(_)
        before(j) == IF j = 0 THEN 0
                     ELSE before(j - 1) + 3 + Len(chunks[j].content) + 1
    IN  before(i - 1) + 1

\* C5: the system prompt is the fixed fallback text exactly when retrieval
\* returned no chunk; otherwise it is the context template around one
\* "From <filename>: <content>" block per chunk, in retrieval order,
\* separated by blank lines.
C5_SystemPrompt ==
    LET chunks == TheCall.chunks
        n == Len(chunks)
        prompt == TheCall.sent[1].content
        ctxLen == Len(prompt) - Len(TemplateHead) - Len(TemplateTail)
        ctx == SubSeq(prompt, Len(TemplateHead) + 1, Len(TemplateHead) + ctxLen)
    IN  Invoked =>
            /\ (prompt = FallbackPrompt) <=> (n = 0)
            /\ n > 0 =>
                  /\ SubSeq(prompt, 1, Len(TemplateHead)) = TemplateHead
                  /\ SubSeq(prompt, Len(prompt) - Len(TemplateTail) + 1, Len(prompt))
                        = TemplateTail
                  /\ ctxLen = BlockStart(chunks, n) + 2 + Len(chunks[n].content)
                  /\ \A i \in 1..n :
                        LET b == BlockStart(chunks, i)
                        IN  /\ ctx[b] = "From "
                            /\ ctx[b + 1] = chunks[i].filename
                            /\ ctx[b + 2] = ": "
                            /\ SubSeq(ctx, b + 3, b + 2 + Len(chunks[i].content))
                                  = chunks[i].content
                            /\ i < n => ctx[b + 3 + Len(chunks[i].content)] = "\n\n"

C5_Witness ==
    /\ Invoked
    /\ Len(TheCall.chunks) >= 2
    /\ TheCall.chunks[1].filename # TheCall.chunks[2].filename
    /\ TheCall.sent[1].content # FallbackPrompt

\* retrieveRelevantChunks has returned or raised
Retrieved == TheCall.outcome # "none"

\* the response's documents, metadatas and distances are arrays of one
\* length (distances may be left out altogether)
Parallel(r) ==
    /\ r.documents.kind = "list"
    /\ r.metadatas.kind = "list"
    /\ Len(r.metadatas.items) = Len(r.documents.items)
    /\ \/ r.distances.kind = "absent"
       \/ /\ r.distances.kind = "list"
          /\ Len(r.distances.items) = Len(r.documents.items)

NoDocuments(r) == r.documents.kind # "list" \/ r.documents.items = <<>>

\* the failure cases of a retrieval: no client, no collection, a failing
\* query, a response without documents, a response with malformed arrays
RetrievalFailure ==
    \/ TheCall.outcome \in {"no client", "no collection", "query failed"}
    \/ /\ TheCall.outcome = "response"
       /\ NoDocuments(TheCall.response) \/ ~Parallel(TheCall.response)

\* C6: retrieveRelevantChunks never raises, so generateAnswer never fails
\* because of retrieval, and in every failure case (no client, no collection,
\* failing query, no documents, malformed parallel arrays) it returns the
\* empty sequence.
C6_RetrievalDegradesToEmpty ==
    Retrieved =>
        /\ TheCall.error # "Retrieval failed"
        /\ RetrievalFailure => TheCall.chunks = <<>>

\* C7: a store answering with N < topK matches in parallel arrays yields
\* exactly N chunks in the store's order, the i-th with the i-th document
\* text, the i-th metadata filename ("unknown" when absent) and the i-th
\* distance as score, 0.5 for every chunk when distances are left out.
C7_ChunksFollowTheResponse ==
    LET r == TheCall.response
        N == Len(r.documents.items)
        chunks == TheCall.chunks
    IN  (TheCall.outcome = "response" /\ Parallel(r) /\ N < TheCall.topK) =>
            /\ Len(chunks) = N
            /\ \A i \in 1..N :
                  /\ chunks[i].content = r.documents.items[i]
                  /\ chunks[i].filename =
                        IF r.metadatas.items[i].present
                           /\ r.metadatas.items[i].filename # ""
                        THEN r.metadatas.items[i].filename ELSE "unknown"
                  /\ chunks[i].score =
                        IF r.distances.kind = "absent" THEN 50
                        ELSE r.distances.items[i]

C7_Witness ==
    /\ TheCall.outcome = "response"
    /\ Parallel(TheCall.response)
    /\ TheCall.response.distances.kind = "absent"
    /\ Len(TheCall.response.documents.items) = 2
    /\ TheCall.topK > 2
    /\ Len(TheCall.chunks) = 2
    /\ TheCall.chunks[1].filename = "faq.txt"
    /\ TheCall.chunks[2].filename = "unknown"
    /\ TheCall.chunks[2].score = 50

NotFound == {"Session not found", "Bot not found"}

NothingAttempted ==
    /\ TheCall.retrieverCalls = 0
    /\ TheCall.providerCalls = 0
    /\ TheCall.userMsgId = 0
    /\ TheCall.asstMsgId = 0

\* C8: a chat call naming no stored session, or a session whose bot does not
\* exist, fails with a not-found error before the retriever or the provider
\* is invoked and before any message is written.
C8_NotFoundBeforeGeneration ==
    LET sid == TheCall.sessionId
    IN  (TheCall.kind = "chat" /\ TheCall.pc # "idle") =>
            /\ ~sessions[sid].exists =>
                  /\ TheCall.pc = "failed"
                  /\ TheCall.error = "Session not found"
            /\ (sessions[sid].exists /\ ~bots[sessions[sid].botId].exists
                   /\ TheCall.pc # "getBot") =>
                  /\ TheCall.pc = "failed"
                  /\ TheCall.error \in NotFound
            /\ (TheCall.pc = "failed" /\ TheCall.error \in NotFound)
                  => NothingAttempted

C8_Witness ==
    /\ TheCall.kind = "chat"
    /\ TheCall.pc = "failed"
    /\ TheCall.error = "Bot not found"
    /\ sessions[TheCall.sessionId].exists
    /\ NothingAttempted

\* C9: when generateCompletion fails during a chat call the call fails with
\* the provider's error, no assistant message is written for the turn, and
\* the user message written before generation stays in the session, last,
\* as a user message without a reply.
C9_ProviderFailurePropagates ==
    LET threw == generateCompletion(LLM_PROVIDERS(provider), TheCall.sent,
                                    TheCall.sentTemperature).threw
    IN  (TheCall.kind = "chat" /\ Invoked /\ threw) =>
            /\ TheCall.pc \in {"generateCompletion", "failed"}
            /\ TheCall.pc = "failed" => TheCall.error = "Provider failed"
            /\ TheCall.asstMsgId = 0
            /\ TheCall.userMsgId = Len(messages)
            /\ messages[TheCall.userMsgId] =
                  [id |-> TheCall.userMsgId, sessionId |-> TheCall.sessionId,
                   role |-> "user", content |-> TheCall.query,
                   tokensUsed |-> Undefined]

C9_Witness ==
    /\ TheCall.kind = "chat"
    /\ Invoked
    /\ TheCall.pc = "failed"
    /\ TheCall.error = "Provider failed"
    /\ messages[Len(messages)].role = "user"

\* C10: the temperature handed to generateCompletion lies in the valid
\* generation range 0.1 .. 1.0, whatever temperature the bot is configured
\* with and whichever provider is configured.
C10_TemperatureClamped ==
    Invoked =>
        /\ MinTemperature <= TheCall.sentTemperature
        /\ TheCall.sentTemperature <= MaxTemperature

\* the rank of message id among the messages of its session (1: the oldest)
Rank(id) ==
    Cardinality({i \in 1..id : messages[i].sessionId = messages[id].sessionId})

\* the id of the message stored right after id in the same session (0: none)
Successor(id) ==
    LET later == {i \in (id + 1)..Len(messages) :
                     messages[i].sessionId = messages[id].sessionId}
    IN  IF later = {} THEN 0 ELSE CHOOSE i \in later : \A j \in later : i <= j

\* C11: of two chat calls on the same session that have both completed, each
\* one's user message is immediately followed in the stored session by its
\* own assistant reply, and the history snapshot of the call that wrote
\* later contains the user and assistant messages of the call that wrote
\* earlier.
C11_TurnsAreSerial ==
    \A c \in CallIds, d \in CallIds :
        (/\ c # d
         /\ calls[c].pc = "done" /\ calls[d].pc = "done"
         /\ calls[c].sessionId = calls[d].sessionId
         /\ calls[c].userMsgId < calls[d].userMsgId)
            => /\ Successor(calls[c].userMsgId) = calls[c].asstMsgId
               /\ Successor(calls[d].userMsgId) = calls[d].asstMsgId
               /\ Rank(calls[c].asstMsgId) <= HistoryLimit
                     => Len(calls[d].history) >= Rank(calls[c].asstMsgId)

\* the keywords generateContextAwareResponse looks for in the query
QueryKeywords ==
    {"shipping", "delivery", "cost", "price", "how much", "time", "long", "when",
     "free", "return", "refund", "how long", "condition", "how to", "free return",
     "contact", "phone", "email", "call", "number", "hour",
     "product", "item", "order", "track", "payment", "pay"}

\* the keywords generateContextAwareResponse looks for in the first message
PromptKeywords ==
    {"shipping", "delivery", "ship", "return", "refund", "exchange",
     "contact", "phone", "email", "support"}

\* the mock provider was handed a list whose last message is a query with
\* none of the topic keywords
UnmatchedQuery ==
    /\ TheCall.kind = "mock"
    /\ TheCall.sent # <<>>
    /\ ~includesAny(toLowerCase(TheCall.sent[Len(TheCall.sent)].content), QueryKeywords)

\* the answer is the generic acknowledgement around the query text as sent
QuotesTheQuery ==
    LET q == TheCall.sent[Len(TheCall.sent)].content
        a == TheCall.result.answer
    IN  /\ Len(a) = Len(q) + 2
        /\ a[1] = "I understand you're asking about \""
        /\ SubSeq(a, 2, Len(q) + 1) = q
        /\ TheCall.result.tokensUsed = (StrLen(a) \div 4) + 50

\* C12 as stated: whenever the last message is a query with none of the topic
\* keywords, generateCompletion returns the generic acknowledgement, which
\* contains the query text verbatim.
C12_GenericForUnmatchedQuery == UnmatchedQuery => QuotesTheQuery

\* C12: whenever the last message is a query with none of the topic keywords
\* and the content of the first message contains none of the keywords the
\* mock looks for in the system prompt, generateCompletion returns the
\* generic acknowledgement, which contains the query text verbatim.
C12_GenericWhenNothingMatches ==
    (UnmatchedQuery /\ ~includesAny(TheCall.sent[1].content, PromptKeywords))
        => QuotesTheQuery

C12_Witness ==
    /\ UnmatchedQuery
    /\ Len(TheCall.sent) >= 2
    /\ TheCall.sent[1].role = "system"
    /\ ~includesAny(TheCall.sent[1].content, PromptKeywords)
    /\ TheCall.sent[Len(TheCall.sent)].content = <<"Hello there">>
    /\ QuotesTheQuery

\* the positions of the preference list whose model is in list L
PreferredIn(L) ==
    {i \in 1..Len(PreferredModels) : \E j \in 1..Len(L) : L[j] = PreferredModels[i]}

\* C13: with L the list of models known after the discovery step of a
\* generateCompletion call (this.availableModels as getAvailableModel reads it
\* once its await of initializeModels is over), the model used is
\* "llama2:7b" if it is in L,
\* otherwise the first entry of the preference list that is in L, otherwise
\* the first element of L when L is not empty, otherwise "llama2:7b".
C13_ModelChoice ==
    LET L == ollama.known
        pref == PreferredIn(L)
    IN  ollama.pc \in {"callOllama", "done", "failed"} =>
            ollama.model =
                IF \E j \in 1..Len(L) : L[j] = "llama2:7b" THEN "llama2:7b"
                ELSE IF pref # {}
                THEN PreferredModels[CHOOSE i \in pref : \A k \in pref : i <= k]
                ELSE IF L # <<>> THEN L[1]
                ELSE "llama2:7b"

C13_Witness ==
    /\ ollama.pc = "callOllama"
    /\ ollama.overtaken
    /\ ollama.known = <<"qwen:4b", "gemma:2b">>
    /\ ollama.model = "qwen:4b"

\* values MODEL_PROVIDER may be given: the keys of LLM_PROVIDERS and the
\* provider names the seed scripts write
ConfigValues == ProviderNames \cup {"ollama"}

\* C14: each of the three provider variants (local-model HTTP client,
\* disabled cloud client, rule-based mock) is the implementation selected by
\* some value of the provider-name configuration, and the value this
\* deployment was built with selects one of them.
C14_EveryVariantSelectable ==
    /\ \A class \in ProviderClasses :
          \E name \in ConfigValues : LLM_PROVIDERS(name) = class
    /\ LLM_PROVIDERS(provider) \in ProviderClasses

\* C15: once ingestDocuments has returned or failed, the status of every
\* submitted document is completed when the ingestion call succeeded and
\* failed when it raised; in the failure case the caller gets no result but
\* an error wrapping the original message.
C15_StatusLeavesPending ==
    ingest.pc \in {"done", "failed"} =>
        /\ \A i \in 1..Len(ingest.input) :
              documents[ingest.input[i]] =
                  IF ingest.pc = "done" THEN "completed" ELSE "failed"
        /\ ingest.pc = "failed" =>
              /\ ~ingest.returned
              /\ \E m \in PostErrors : ingest.error = "Ingestion failed: " \o m

\* C16: when more than limit messages lie from the cursor onwards (the store
\* returns limit+1 rows), the oldest row returned is dropped, edges holds
\* exactly the limit most recent of them in ascending order, and nextCursor
\* is the id of the oldest row kept in edges.
C16_NextPage ==
    LET rest == FromCursor(page.sessionId, page.cursor)
        kept == {page.edges[i].id : i \in 1..Len(page.edges)}
    IN  (page.asked /\ page.limit >= 1 /\ Cardinality(rest) > page.limit)
            => /\ Len(page.edges) = page.limit
               /\ Cardinality(kept) = page.limit
               /\ kept \subseteq rest
               /\ \A x \in rest \ kept : \A k \in kept : x < k
               /\ \A i \in 1..(Len(page.edges) - 1) :
                      page.edges[i].id < page.edges[i + 1].id
               /\ page.nextCursor = page.edges[1].id
               /\ \A k \in kept : page.nextCursor <= k

C16_Witness ==
    /\ page.asked
    /\ page.cursor # 0
    /\ page.limit >= 2
    /\ Cardinality(FromCursor(page.sessionId, page.cursor)) > page.limit
    /\ page.nextCursor = page.edges[1].id
    /\ page.edges[1].id + 1 < page.edges[2].id

\* C17: for any limit >= 1, whenever getMessagesPaginated called with a
\* cursor c returns a nextCursor, that nextCursor names a message strictly
\* older than c (so following nextCursor comes to a page without one).
C17_NextCursorIsOlder ==
    (page.asked /\ page.limit >= 1 /\ page.cursor # 0 /\ page.nextCursor # Undefined)
        => page.nextCursor < page.cursor

\* the messages the session of the call held before the call wrote its user
\* message, oldest first
HeldBefore ==
    SelectSeq(SessionAsc(messages, TheCall.sessionId),
              LAMBDA m : m.id < TheCall.userMsgId)

\* C18: the history chat hands to generateAnswer was read before the user
\* message of the turn was written: with n the number of messages the session
\* held then, it is the first min(n, 10) messages of the session in ascending
\* creation order, each reduced to role and content; the query is not among
\* them and is sent to the provider once, as the final message.
C18_HistoryIsOldestTen ==
    LET H == TheCall.history
        held == HeldBefore
        n == Len(held)
    IN  (TheCall.kind = "chat" /\ TheCall.userMsgId # 0) =>
            /\ Len(H) = IF n < HistoryLimit THEN n ELSE HistoryLimit
            /\ \A i \in 1..Len(H) :
                  H[i] = [role |-> held[i].role, content |-> held[i].content]
            /\ Invoked =>
                  /\ Len(TheCall.sent) = Len(H) + 2
                  /\ \A i \in 1..Len(H) : TheCall.sent[i + 1] = H[i]
                  /\ TheCall.sent[Len(H) + 2] = [role |-> "user", content |-> TheCall.query]

C18_Witness ==
    /\ TheCall.kind = "chat"
    /\ TheCall.pc = "done"
    /\ Len(HeldBefore) > HistoryLimit
    /\ Len(TheCall.history) = HistoryLimit
    /\ TheCall.history[1].content = <<"message ", "1">>
    /\ TheCall.history[HistoryLimit].content = <<"message ", "11">>

\* the user message of the call is stored as the input gave it
UserMessageWritten ==
    /\ TheCall.userMsgId \in 1..Len(messages)
    /\ messages[TheCall.userMsgId] =
          [id |-> TheCall.userMsgId, sessionId |-> TheCall.sessionId,
           role |-> "user", content |-> TheCall.query, tokensUsed |-> Undefined]

\* a completed chat call has added its user message and then its assistant
\* message, carrying the answer and tokensUsed it returns, and nothing else
TwoMessagesAppended ==
    (TheCall.kind = "chat" /\ TheCall.pc = "done") =>
        /\ UserMessageWritten
        /\ TheCall.asstMsgId = TheCall.userMsgId + 1
        /\ TheCall.asstMsgId = Len(messages)
        /\ messages[TheCall.asstMsgId] =
              [id |-> TheCall.asstMsgId, sessionId |-> TheCall.sessionId,
               role |-> "assistant", content |-> TheCall.result.answer,
               tokensUsed |-> TheCall.result.tokensUsed]

\* generation starts only after the user message is written
UserMessageBeforeGeneration ==
    (TheCall.kind = "chat" /\ (TheCall.retrieverCalls > 0 \/ Invoked))
        => UserMessageWritten

\* a step leaves every stored message as it is and adds at most one
StoredMessagesKept ==
    /\ Len(messages') \in {Len(messages), Len(messages) + 1}
    /\ \A i \in 1..Len(messages) : messages'[i] = messages[i]

\* C19: a chat call that completes appends exactly two messages, to the
\* session named in its input: first a user message with the input message as
\* content, written before generation starts, then an assistant message whose
\* content and tokensUsed are the answer and tokensUsed returned; no message
\* stored before is modified or removed.
C19_AppendsExactlyTwo ==
    /\ [](TwoMessagesAppended /\ UserMessageBeforeGeneration)
    /\ [][StoredMessagesKept]_vars

C19_Witness ==
    /\ TheCall.kind = "chat"
    /\ TheCall.pc = "done"
    /\ TheCall.sessionId = "s2"
    /\ TheCall.userMsgId >= 3
    /\ TheCall.result.tokensUsed > 0
    /\ messages[TheCall.asstMsgId].tokensUsed = TheCall.result.tokensUsed

\* the canned answers of the shipping, returns and contact topics
TopicAnswers ==
    {ShippingCost, ShippingTime, ShippingFree, ShippingGeneral,
     ReturnTime, ReturnCondition, ReturnCost, ReturnGeneral,
     ContactPhone, ContactEmail, ContactHours, ContactGeneral}

\* C20: when generateAnswer runs with the mock provider, the system prompt it
\* sends contains a keyword the mock matches ("shipping" in the fallback
\* text, "support" in the context template), so every answer is one of the
\* shipping, returns or contact canned answers, whatever the query and the
\* retrieval outcome.
C20_MockAnswersAreTopical ==
    (TheCall.kind = "rag" /\ LLM_PROVIDERS(provider) = "MockLLMProvider" /\ Invoked) =>
        /\ includesAny(TheCall.sent[1].content, {"shipping", "support"})
        /\ TheCall.pc = "done" =>
              /\ TheCall.result.answer \in TopicAnswers
              /\ TheCall.result.answer \notin {ProductAnswer, OrderAnswer, PaymentAnswer,
                                               GenericAnswer(TheCall.query)}

C20_Witness ==
    /\ TheCall.kind = "rag"
    /\ LLM_PROVIDERS(provider) = "MockLLMProvider"
    /\ TheCall.pc = "done"
    /\ TheCall.query = <<"Where is my ", "order", "?">>
    /\ TheCall.chunks # <<>>
    /\ TheCall.result.answer \in TopicAnswers
====
